---- MODULE Spec2Model ----
(***************************************************************************)
(* Tiled GEMM kernels of cuda/src/cuda_gemm_kernel.cu:                      *)
(*   gemm_v06_vectorized  (register-blocked, int4 write-back)              *)
(*   gemm_v07_vectorized  (WMMA fragments)                                 *)
(* and their launch functions.                                             *)
(*                                                                         *)
(* Scheduling unit of the reduction loop: one warp.  Write-back of v06 is  *)
(* modelled per thread and per vector group (load, then store); write-back *)
(* of v07 is one step per warp that walks its fragments in program order.  *)
(* Element arithmetic is exact integer arithmetic extended with one NaN    *)
(* value (rounding of T is not modelled).                                  *)
(***************************************************************************)
EXTENDS Integers, Sequences, FiniteSets

\* ---------------------------------------------------------------- tile sizes
BLOCK_TILE_SIZE_X == 128
BLOCK_TILE_SIZE_Y == 128
BLOCK_TILE_SIZE_K == 16
WARP_TILE_SIZE_X == 32
WARP_TILE_SIZE_Y == 64
THREAD_TILE_SIZE_X == 8
THREAD_TILE_SIZE_Y == 8
NUM_THREADS_PER_WARP_X == 4
NUM_THREADS_PER_WARP_Y == 8
WMMA_TILE_SIZE_X == 16
WMMA_TILE_SIZE_Y == 16
WMMA_TILE_SIZE_K == 16
\* sizeof(int4) / sizeof(T) for T = float
NUM_VECTOR_UNITS == 4
\* threads of one warp (thread_linear_idx / 32U)
WarpSize == 32

NUM_WARPS_X == BLOCK_TILE_SIZE_X \div WARP_TILE_SIZE_X
NUM_WARPS_Y == BLOCK_TILE_SIZE_Y \div WARP_TILE_SIZE_Y
NUM_THREAD_TILES_PER_WARP_X ==
    WARP_TILE_SIZE_X \div (THREAD_TILE_SIZE_X * NUM_THREADS_PER_WARP_X)
NUM_THREAD_TILES_PER_WARP_Y ==
    WARP_TILE_SIZE_Y \div (THREAD_TILE_SIZE_Y * NUM_THREADS_PER_WARP_Y)
VECTORIZED_THREAD_TILE_SIZE_X == THREAD_TILE_SIZE_X \div NUM_VECTOR_UNITS
NUM_WMMA_TILES_X == WARP_TILE_SIZE_X \div WMMA_TILE_SIZE_X
NUM_WMMA_TILES_Y == WARP_TILE_SIZE_Y \div WMMA_TILE_SIZE_Y
NUM_WMMA_TILES_K == BLOCK_TILE_SIZE_K \div WMMA_TILE_SIZE_K
\* warps of one block: NUM_THREADS_PER_BLOCK / 32 in both launch functions
NumWarps == NUM_WARPS_X * NUM_WARPS_Y

\* ---------------------------------------------------------------- bounds
\* reduction sizes explored: k in 0..MaxK
MaxK == 1

\* ---------------------------------------------------------------- values of T
\* the NaN of T, kept apart from every number the runs produce
NaN == -1000000000

FMul(a, b) == IF a = NaN \/ b = NaN THEN NaN ELSE a * b
FAdd(a, b) == IF a = NaN \/ b = NaN THEN NaN ELSE a + b

VARIABLES
    kern,      \* "v06" or "v07": which launch function is called
    m, n, k,   \* problem sizes (of the size_t m and n: the bits below Limb)
    mHigh, nHigh, \* the bits of the size_t m and n from Limb up: m is mHigh * Limb + m
    ldc,       \* leading dimension of C passed by the caller
    alpha, beta,
    cinit,     \* which initial contents the caller put in C
    status,    \* "init", "running", "invalid_configuration", "fault", "completed"
    grid,      \* <<gridDim.x, gridDim.y>>
    pc,        \* warp -> "load" | "sync" | "compute" | "final" | "wb" | "done"
    tile,      \* warp -> thread_block_tile_idx
    staged,    \* warp -> number of staging loads the warp has done
    acc,       \* warp -> sequence of the tiles its accumulators have summed
    lanePc,    \* v06 thread -> 2 * (write-back iteration it is at) + (1 if C_vals is loaded)
    laneReg,   \* v06 thread -> C_vals
               \* (both kept for the threads with an iteration that passes the boundary check)
    C,         \* the caller's buffer of m * ldc elements
    stores,    \* history: every store to C that was issued
    ub,        \* history: kinds of invalid access the kernel has made
    gpc,       \* lane group -> "load" | "sync" | "compute" | "syncwarp" | "final" | "wb" | "done"
    gtile,     \* lane group -> thread_block_tile_idx
    gstaged,   \* lane group -> number of staging loads the lanes have done
    barriers   \* lane group -> number of __syncthreads() the lanes have passed
               \* (the four are kept where the lanes of a warp are followed apart)

vars == <<kern, m, n, mHigh, nHigh, k, ldc, alpha, beta, cinit, status, grid, pc, tile,
          staged, acc, lanePc, laneReg, C, stores, ub, gpc, gtile, gstaged, barriers>>

args == <<kern, m, n, mHigh, nHigh, k, ldc, alpha, beta, cinit>>

\* the state of the lanes where they are followed apart
lanes == <<gpc, gtile, gstaged, barriers>>

\* the state of the warps and of C where the warps are followed as a whole
warps == <<pc, tile, staged, acc, lanePc, laneReg, C, stores, ub>>

\* ---------------------------------------------------------------- inputs
\* A[i][p] and B[p][j] as the caller filled them
AElem(i, p) == ((i + 2 * p) % 3) - 1
BElem(p, j) == ((2 * j + p) % 3) - 1

\* C before the launch, by element offset
CElem(cin, off) ==
    IF cin = "nan" /\ off = 0 THEN NaN ELSE 1 + ((off + (IF cin = "nan" THEN 1 ELSE 0)) % 3)

CSize == m * ldc

\* ---------------------------------------------------------------- indices
Blocks == {<<bx, by>> : bx \in 0 .. grid[1] - 1, by \in 0 .. grid[2] - 1}
Warps == {<<b[1], b[2], w>> : b \in Blocks, w \in 0 .. NumWarps - 1}
WarpOf(th) == <<th[1], th[2], th[3]>>
BlockWarps(w) == {x \in Warps : x[1] = w[1] /\ x[2] = w[2]}

warp_row_idx(w) == w[3] \div NUM_WARPS_X
warp_col_idx(w) == w[3] % NUM_WARPS_X
thread_linear_row_idx_in_warp(th) == th[4] \div NUM_THREADS_PER_WARP_X
thread_linear_col_idx_in_warp(th) == th[4] % NUM_THREADS_PER_WARP_X

num_thread_block_tiles == (k + BLOCK_TILE_SIZE_K - 1) \div BLOCK_TILE_SIZE_K

\* ---------------------------------------------------------------- staging loader
\* A_thread_block_tile_transposed[k_i][row] after the load of tile t in block row by
AStage(by, t, k_i, lrow) ==
    LET row == by * BLOCK_TILE_SIZE_Y + lrow
        kk == t * BLOCK_TILE_SIZE_K + k_i
    IN  IF row < m /\ kk < k THEN AElem(row, kk) ELSE 0

\* B_thread_block_tile[k_i][col] after the load of tile t in block column bx
BStage(bx, t, k_i, lcol) ==
    LET col == bx * BLOCK_TILE_SIZE_X + lcol
        kk == t * BLOCK_TILE_SIZE_K + k_i
    IN  IF col < n /\ kk < k THEN BElem(kk, col) ELSE 0

\* ---------------------------------------------------------------- accumulation
RECURSIVE TileDot(_, _, _, _, _, _)
\* sum over k_i of A_tile[k_i][lrow] * B_tile[k_i][lcol]; the k_i past the end of
\* the reduction dimension hold zeros in both tiles and are left out of the sum
TileDot(w, t, lrow, lcol, k_i, sum) ==
    IF k_i = BLOCK_TILE_SIZE_K \/ t * BLOCK_TILE_SIZE_K + k_i >= k THEN sum
    ELSE TileDot(w, t, lrow, lcol, k_i + 1,
                 FAdd(sum, FMul(AStage(w[2], t, k_i, lrow), BStage(w[1], t, k_i, lcol))))

RECURSIVE AccSum(_, _, _, _, _)
\* the accumulator entry for block-local (lrow, lcol) after the tiles in ts
AccSum(w, ts, lrow, lcol, i) ==
    IF i > Len(ts) THEN 0
    ELSE FAdd(TileDot(w, ts[i], lrow, lcol, 0, 0), AccSum(w, ts, lrow, lcol, i + 1))

AccEntry(w, lrow, lcol) == AccSum(w, acc[w], lrow, lcol, 1)

\* ---------------------------------------------------------------- v06 write-back
\* iterations of the write-back loop nest of one thread, in program order
NumItersV06 ==
    NUM_THREAD_TILES_PER_WARP_Y * NUM_THREAD_TILES_PER_WARP_X
        * THREAD_TILE_SIZE_Y * VECTORIZED_THREAD_TILE_SIZE_X

thread_tile_x_vector_idx(q) == q % VECTORIZED_THREAD_TILE_SIZE_X
thread_tile_y_idx(q) == (q \div VECTORIZED_THREAD_TILE_SIZE_X) % THREAD_TILE_SIZE_Y
thread_tile_repeat_col_idx(q) ==
    (q \div (VECTORIZED_THREAD_TILE_SIZE_X * THREAD_TILE_SIZE_Y))
        % NUM_THREAD_TILES_PER_WARP_X
thread_tile_repeat_row_idx(q) ==
    q \div (VECTORIZED_THREAD_TILE_SIZE_X * THREAD_TILE_SIZE_Y
                * NUM_THREAD_TILES_PER_WARP_X)

\* row and first column of the vector group inside the block tile
LocalRowV06(th, q) ==
    warp_row_idx(th) * WARP_TILE_SIZE_Y
        + thread_tile_repeat_row_idx(q) * (WARP_TILE_SIZE_Y \div NUM_THREAD_TILES_PER_WARP_Y)
        + thread_linear_row_idx_in_warp(th) * THREAD_TILE_SIZE_Y
        + thread_tile_y_idx(q)
LocalColV06(th, q) ==
    warp_col_idx(th) * WARP_TILE_SIZE_X
        + thread_tile_repeat_col_idx(q) * (WARP_TILE_SIZE_X \div NUM_THREAD_TILES_PER_WARP_X)
        + thread_linear_col_idx_in_warp(th) * THREAD_TILE_SIZE_X
        + thread_tile_x_vector_idx(q) * NUM_VECTOR_UNITS

C_row_idx(th, q) == th[2] * BLOCK_TILE_SIZE_Y + LocalRowV06(th, q)
C_col_idx(th, q) == th[1] * BLOCK_TILE_SIZE_X + LocalColV06(th, q)

\* if (C_row_idx < m && C_col_idx < n)
BoundaryCheckV06(th, q) == C_row_idx(th, q) < m /\ C_col_idx(th, q) < n

RECURSIVE NextIterV06(_, _)
\* the next iteration at or after q whose boundary check passes
NextIterV06(th, q) ==
    IF q >= NumItersV06 \/ BoundaryCheckV06(th, q) THEN q ELSE NextIterV06(th, q + 1)

\* &C[C_row_idx * ldc + C_col_idx]
VecOffsetV06(th, q) == C_row_idx(th, q) * ldc + C_col_idx(th, q)

\* what is invalid about an int4 access at element offset off of C
VecAccessFaults(off) ==
    (IF off % NUM_VECTOR_UNITS # 0 THEN {"misaligned"} ELSE {})
        \cup (IF off + NUM_VECTOR_UNITS > CSize THEN {"out_of_bounds"} ELSE {})

\* int4 C_vals{*reinterpret_cast<int4 const*>(&C[...])}: the lanes inside the buffer
VecLoad(off) == [i \in {j \in 0 .. NUM_VECTOR_UNITS - 1 : off + j < CSize} |-> C[off + i]]

\* alpha * C_thread_results[..][..][..][xv * NUM_VECTOR_UNITS + i] + beta * C_vals[i]
BlendV06(th, q, i, old) ==
    FAdd(FMul(alpha, AccEntry(WarpOf(th), LocalRowV06(th, q), LocalColV06(th, q) + i)),
         FMul(beta, old))

VecStoreRecord(th, q) ==
    [worker |-> th, row |-> C_row_idx(th, q), col |-> C_col_idx(th, q),
     off |-> VecOffsetV06(th, q), width |-> NUM_VECTOR_UNITS, height |-> 1,
     stride |-> ldc]

LaneFinished(lp) == lp \div 2 >= NumItersV06

\* ---------------------------------------------------------------- v07 write-back
NumFragsV07 == NUM_WMMA_TILES_Y * NUM_WMMA_TILES_X
wmma_tile_row_idx(q) == q \div NUM_WMMA_TILES_X
wmma_tile_col_idx(q) == q % NUM_WMMA_TILES_X

FragRowV07(w, q) ==
    w[2] * BLOCK_TILE_SIZE_Y + warp_row_idx(w) * WARP_TILE_SIZE_Y
        + wmma_tile_row_idx(q) * WMMA_TILE_SIZE_Y
FragColV07(w, q) ==
    w[1] * BLOCK_TILE_SIZE_X + warp_col_idx(w) * WARP_TILE_SIZE_X
        + wmma_tile_col_idx(q) * WMMA_TILE_SIZE_X

\* the leading dimension handed to load_matrix_sync / store_matrix_sync
FragStrideV07 == n

\* &C[(...) * n + ...]
FragOffsetV07(w, q) == FragRowV07(w, q) * n + FragColV07(w, q)

\* the fragment reaches past the caller's buffer
FragFaults(w, q) ==
    FragOffsetV07(w, q) + (WMMA_TILE_SIZE_Y - 1) * FragStrideV07 + WMMA_TILE_SIZE_X > CSize

\* acc_frags[fr][fc] element (r, c): rows of the A tile, columns of the B tile
FragAccV07(w, q, r, c) ==
    AccEntry(w,
             warp_row_idx(w) * WARP_TILE_SIZE_Y + wmma_tile_row_idx(q) * WMMA_TILE_SIZE_Y + r,
             warp_col_idx(w) * WARP_TILE_SIZE_X + wmma_tile_col_idx(q) * WMMA_TILE_SIZE_Y + c)

\* element offset o of C belongs to fragment q of warp w
InFragV07(w, q, o) ==
    /\ o >= FragOffsetV07(w, q)
    /\ (o - FragOffsetV07(w, q)) % FragStrideV07 < WMMA_TILE_SIZE_X
    /\ (o - FragOffsetV07(w, q)) \div FragStrideV07 < WMMA_TILE_SIZE_Y

\* load_matrix_sync(c_frag, ...); c_frag.x[i] = alpha * acc.x[i] + beta * c_frag.x[i];
\* store_matrix_sync(...): the new value of the element at offset o, which held old
FragBlendV07(w, q, o, old) ==
    LET d == o - FragOffsetV07(w, q)
    IN  FAdd(FMul(alpha, FragAccV07(w, q, d \div FragStrideV07, d % FragStrideV07)),
             FMul(beta, old))

RECURSIVE FragsInBuffer(_, _, _)
\* the fragments q .. stop - 1 of the warp that start inside the buffer, in
\* program order (a fragment that starts past the buffer changes none of it)
FragsInBuffer(w, q, stop) ==
    IF q >= stop THEN << >>
    ELSE IF FragOffsetV07(w, q) < CSize
         THEN <<q>> \o FragsInBuffer(w, q + 1, stop)
         ELSE FragsInBuffer(w, q + 1, stop)

RECURSIVE FragsApplied(_, _, _, _, _)
\* the element at offset o, holding v, after the warp has gone through the
\* fragments qs[i], qs[i + 1], ...
FragsApplied(w, o, v, qs, i) ==
    IF i > Len(qs) THEN v
    ELSE IF InFragV07(w, qs[i], o)
         THEN FragsApplied(w, o, FragBlendV07(w, qs[i], o, v), qs, i + 1)
         ELSE FragsApplied(w, o, v, qs, i + 1)

FragStoreRecord(w, q) ==
    [worker |-> <<w[1], w[2], w[3], -1>>, row |-> FragRowV07(w, q),
     col |-> FragColV07(w, q), off |-> FragOffsetV07(w, q),
     width |-> WMMA_TILE_SIZE_X, height |-> WMMA_TILE_SIZE_Y, stride |-> FragStrideV07]

\* ---------------------------------------------------------------- launch
\* half the width of unsigned int: a size is kept as two limbs, hi * Limb + lo
Limb == 65536

\* (static_cast<unsigned int>(x) + TILE - 1U) / TILE for x = hi * Limb + lo: the
\* cast keeps the low 32 bits, the sum wraps at 32 bits, and TILE divides Limb
GridDim(hi, lo, tileSize) ==
    LET sum == lo + tileSize - 1
        lo1 == sum % Limb
        hi1 == ((hi % Limb) + sum \div Limb) % Limb
    IN  hi1 * (Limb \div tileSize) + lo1 \div tileSize

\* dim3 const grid_dim{...}
grid_dim == <<GridDim(nHigh, n, BLOCK_TILE_SIZE_X), GridDim(mHigh, m, BLOCK_TILE_SIZE_Y)>>

\* dim3 const block_dim{NUM_THREADS_PER_BLOCK, 1U, 1U}
NUM_THREADS_PER_BLOCK ==
    IF kern = "v06"
    THEN (NUM_WARPS_X * NUM_THREADS_PER_WARP_X) * (NUM_WARPS_Y * NUM_THREADS_PER_WARP_Y)
    ELSE NUM_WARPS_X * NUM_WARPS_Y * WarpSize

WarpsIn(g) ==
    {<<bx, by, w>> : bx \in 0 .. g[1] - 1, by \in 0 .. g[2] - 1, w \in 0 .. NumWarps - 1}
ThreadsIn(g) == {<<w[1], w[2], w[3], l>> : w \in WarpsIn(g), l \in 0 .. WarpSize - 1}

\* the threads whose write-back loop has an iteration that passes the boundary check
WritingThreadsIn(g) == {th \in ThreadsIn(g) : NextIterV06(th, 0) < NumItersV06}

\* the loop left without the __syncthreads() that follows it
LoopHeadNoFinalBarrier(t) == IF t < num_thread_block_tiles THEN "load" ELSE "wb"

\* where a warp stands when it reaches the head of the reduction loop with index t
LoopHead(t) == IF t < num_thread_block_tiles THEN "load" ELSE "final"

\* launch_gemm_kernel_v06_vectorized / launch_gemm_kernel_v07_vectorized:
\* a grid with a zero dimension is rejected by the launch and reported by
\* CHECK_LAST_CUDA_ERROR; otherwise every warp starts at the loop head.
Launch ==
    /\ status = "init"
    /\ LET g == grid_dim
       IN  /\ grid' = g
           /\ IF g[1] = 0 \/ g[2] = 0
              THEN /\ status' = "invalid_configuration"
                   /\ UNCHANGED <<pc, tile, staged, acc, lanePc, laneReg>>
              ELSE /\ status' = "running"
                   /\ pc' = [w \in WarpsIn(g) |-> LoopHead(0)]
                   /\ tile' = [w \in WarpsIn(g) |-> 0]
                   /\ staged' = [w \in WarpsIn(g) |-> 0]
                   /\ acc' = [w \in WarpsIn(g) |-> << >>]
                   /\ lanePc' = IF kern = "v06"
                                THEN [th \in WritingThreadsIn(g) |-> 2 * NextIterV06(th, 0)]
                                ELSE << >>
                   /\ laneReg' = IF kern = "v06"
                                 THEN [th \in WritingThreadsIn(g) |-> << >>]
                                 ELSE << >>
    /\ UNCHANGED <<args, lanes, C, stores, ub>>

\* ---------------------------------------------------------------- reduction loop
\* load_data_to_shared_memory_transposed_vectorized(..., thread_block_tile_idx, ...)
LoadTile(w) ==
    /\ status = "running"
    /\ pc[w] = "load"
    /\ staged' = [staged EXCEPT ![w] = tile[w] + 1]
    /\ pc' = [pc EXCEPT ![w] = "sync"]
    /\ UNCHANGED <<args, lanes, status, grid, tile, acc, lanePc, laneReg, C, stores, ub>>

\* every thread of the warp is through its write-back loop
WarpWritten(w, lp) == \A th \in DOMAIN lp : WarpOf(th) = w => LaneFinished(lp[th])

WarpWritesNothing(w) == kern = "v06" /\ WarpWritten(w, lanePc)

\* __syncthreads(): released when every warp of the block waits at one
SyncThreads(b) ==
    /\ status = "running"
    /\ \A w \in Warps : (w[1] = b[1] /\ w[2] = b[2]) => pc[w] \in {"sync", "final"}
    /\ pc' = [w \in Warps |->
                IF w[1] = b[1] /\ w[2] = b[2]
                THEN IF pc[w] = "sync" THEN "compute"
                     ELSE IF WarpWritesNothing(w) THEN "done" ELSE "wb"
                ELSE pc[w]]
    /\ UNCHANGED <<args, lanes, status, grid, tile, staged, acc, lanePc, laneReg, C, stores, ub>>

\* the tiles the staging buffers of the warp's block may hold right now
TilesStaged(w) == {staged[x] - 1 : x \in BlockWarps(w)}

\* the k_i loop over the staged tile, __syncwarp(), ++thread_block_tile_idx
ComputeTile(w) ==
    /\ status = "running"
    /\ pc[w] = "compute"
    /\ \E t \in TilesStaged(w) : acc' = [acc EXCEPT ![w] = Append(@, t)]
    /\ tile' = [tile EXCEPT ![w] = @ + 1]
    /\ pc' = [pc EXCEPT ![w] = LoopHead(tile[w] + 1)]
    /\ UNCHANGED <<args, lanes, status, grid, staged, lanePc, laneReg, C, stores, ub>>

\* ---------------------------------------------------------------- write-back steps
\* v06: int4 C_vals{...} of the thread's next vector group
WBLoadV06(th) ==
    /\ status = "running"
    /\ kern = "v06"
    /\ pc[WarpOf(th)] = "wb"
    /\ lanePc[th] % 2 = 0
    /\ ~LaneFinished(lanePc[th])
    /\ LET off == VecOffsetV06(th, lanePc[th] \div 2)
       IN  \/ /\ VecAccessFaults(off) # {}
              /\ status' = "fault"
              /\ ub' = ub \cup VecAccessFaults(off)
              /\ UNCHANGED <<lanePc, laneReg>>
           \/ /\ laneReg' = [laneReg EXCEPT ![th] = VecLoad(off)]
              /\ lanePc' = [lanePc EXCEPT ![th] = @ + 1]
              /\ ub' = ub \cup VecAccessFaults(off)
              /\ UNCHANGED status
    /\ UNCHANGED <<args, lanes, grid, pc, tile, staged, acc, C, stores>>

\* v06: the blend of C_vals and *reinterpret_cast<int4*>(&C[...]) = C_vals
WBStoreV06(th) ==
    /\ status = "running"
    /\ kern = "v06"
    /\ pc[WarpOf(th)] = "wb"
    /\ lanePc[th] % 2 = 1
    /\ LET q == lanePc[th] \div 2
           off == VecOffsetV06(th, q)
           lp == [lanePc EXCEPT ![th] = 2 * NextIterV06(th, q + 1)]
       IN  \/ /\ VecAccessFaults(off) # {}
              /\ status' = "fault"
              /\ ub' = ub \cup VecAccessFaults(off)
              /\ UNCHANGED <<pc, lanePc, laneReg, C, stores>>
           \/ /\ C' = [o \in DOMAIN C |->
                        IF o >= off /\ o < off + NUM_VECTOR_UNITS
                        THEN BlendV06(th, q, o - off, laneReg[th][o - off])
                        ELSE C[o]]
              /\ stores' = stores \cup {VecStoreRecord(th, q)}
              /\ lanePc' = lp
              /\ laneReg' = [laneReg EXCEPT ![th] = << >>]
              /\ pc' = IF WarpWritten(WarpOf(th), lp)
                       THEN [pc EXCEPT ![WarpOf(th)] = "done"]
                       ELSE pc
              /\ ub' = ub \cup VecAccessFaults(off)
              /\ UNCHANGED status
    /\ UNCHANGED <<args, lanes, grid, tile, staged, acc>>

RECURSIVE FirstFaultV07(_, _)
\* the first fragment at or after q that reaches past the buffer (NumFragsV07: none)
FirstFaultV07(w, q) ==
    IF q >= NumFragsV07 \/ FragFaults(w, q) THEN q ELSE FirstFaultV07(w, q + 1)

\* where the fragment loop of the warp can end: after its last fragment, or at
\* its first invalid access
FragStops(w) == {FirstFaultV07(w, 0), NumFragsV07}

\* v07: the fragment loop of one warp; a fragment that reaches past the buffer
\* may stop the kernel there
WriteBackV07(w) ==
    /\ status = "running"
    /\ kern = "v07"
    /\ pc[w] = "wb"
    /\ \E stop \in FragStops(w) :
          /\ LET qs == FragsInBuffer(w, 0, stop)
             IN  C' = IF qs = << >> THEN C
                      ELSE [o \in DOMAIN C |-> FragsApplied(w, o, C[o], qs, 1)]
          /\ stores' = stores \cup {FragStoreRecord(w, q) : q \in 0 .. stop - 1}
          /\ ub' = ub \cup (IF \E q \in 0 .. stop : q < NumFragsV07 /\ FragFaults(w, q)
                            THEN {"out_of_bounds"} ELSE {})
          /\ IF stop = NumFragsV07
             THEN pc' = [pc EXCEPT ![w] = "done"] /\ UNCHANGED status
             ELSE status' = "fault" /\ UNCHANGED pc
    /\ UNCHANGED <<args, lanes, grid, tile, staged, acc, lanePc, laneReg>>

\* every warp has returned from the kernel
KernelExit ==
    /\ status = "running"
    /\ \A w \in Warps : pc[w] = "done"
    /\ status' = "completed"
    /\ UNCHANGED <<args, lanes, grid, pc, tile, staged, acc, lanePc, laneReg, C, stores, ub>>

\* ---------------------------------------------------------------- calls explored
\* <<m, n, ldc>> of the calls of launch_gemm_kernel_v06_vectorized
ShapesV06 ==
    {<<2, 4, 4>>, <<2, 5, 5>>, <<1, 5, 8>>, <<2, 9, 9>>, <<2, 4, 5>>, <<2, 8, 12>>,
     <<0, 4, 4>>, <<2, 0, 4>>}
\* <<m, n, ldc>> of the calls of launch_gemm_kernel_v07_vectorized
ShapesV07 == {<<16, 16, 16>>, <<16, 16, 24>>, <<0, 16, 16>>, <<16, 0, 16>>}
\* <<alpha, beta>>
Scalars == {<<1, 0>>, <<2, 3>>}

\* contents of C before the call: all finite, or with a NaN in its first element
ContentsV06 == {"finite", "nan"}
ContentsV07 == {"finite"}

Init ==
    /\ kern \in {"v06", "v07"}
    /\ \E s \in (IF kern = "v06" THEN ShapesV06 ELSE ShapesV07) :
          m = s[1] /\ n = s[2] /\ ldc = s[3]
    /\ mHigh = 0 /\ nHigh = 0
    /\ k \in 0 .. MaxK
    /\ \E s \in Scalars : alpha = s[1] /\ beta = s[2]
    /\ cinit \in (IF kern = "v06" THEN ContentsV06 ELSE ContentsV07)
    /\ status = "init"
    /\ grid = <<0, 0>>
    /\ pc = << >>
    /\ tile = << >>
    /\ staged = << >>
    /\ acc = << >>
    /\ lanePc = << >>
    /\ laneReg = << >>
    /\ C = [o \in 0 .. CSize - 1 |-> CElem(cinit, o)]
    /\ stores = {}
    /\ ub = {}
    /\ gpc = << >> /\ gtile = << >> /\ gstaged = << >> /\ barriers = << >>

Next ==
    \/ Launch
    \/ \E w \in Warps : LoadTile(w)
    \/ \E b \in Blocks : SyncThreads(b)
    \/ \E w \in Warps : ComputeTile(w)
    \/ \E th \in DOMAIN lanePc : WBLoadV06(th)
    \/ \E th \in DOMAIN lanePc : WBStoreV06(th)
    \/ \E w \in Warps : WriteBackV07(w)
    \/ KernelExit

Spec == Init /\ [][Next]_vars

\* ---------------------------------------------------------------- launch geometry
\* limbs of the sizes m and n whose launch geometry is explored
HighLimbs == {0, 1, Limb - 1, Limb}
LowLimbs == {1, BLOCK_TILE_SIZE_X - 1, BLOCK_TILE_SIZE_X, BLOCK_TILE_SIZE_X + 1,
             Limb - BLOCK_TILE_SIZE_X, Limb - BLOCK_TILE_SIZE_X + 1, Limb - 1}

\* a call with any size_t m and n; the buffers play no part before the kernel
\* runs and are left out
InitGeometry ==
    /\ kern \in {"v06", "v07"}
    /\ mHigh \in HighLimbs /\ m \in LowLimbs
    /\ nHigh \in HighLimbs /\ n \in LowLimbs
    /\ k = 1 /\ ldc = n /\ alpha = 1 /\ beta = 0 /\ cinit = "finite"
    /\ status = "init"
    /\ grid = <<0, 0>>
    /\ pc = << >> /\ tile = << >> /\ staged = << >> /\ acc = << >>
    /\ lanePc = << >> /\ laneReg = << >>
    /\ C = << >> /\ stores = {} /\ ub = {}
    /\ gpc = << >> /\ gtile = << >> /\ gstaged = << >> /\ barriers = << >>

\* the launch functions up to the dispatch: grid_dim is computed and the launch
\* <<<grid_dim, block_dim>>> is accepted, or rejected for a zero dimension
Dispatch ==
    /\ status = "init"
    /\ grid' = grid_dim
    /\ status' = IF grid_dim[1] = 0 \/ grid_dim[2] = 0
                 THEN "invalid_configuration" ELSE "dispatched"
    /\ UNCHANGED <<args, lanes, warps>>

NextGeometry == Dispatch

SpecGeometry == InitGeometry /\ [][NextGeometry]_vars

\* ---------------------------------------------------------------- lanes of a warp
\* reduction tiles explored where the lanes are followed apart: 0 .. MaxTiles
MaxTiles == 2

\* the lanes of a warp, followed as those that finish a tile's reads first and
\* those that finish them last
LaneGroups == {"front", "rear"}
LaneGroupsIn(g) == {<<w[1], w[2], w[3], l>> : w \in WarpsIn(g), l \in LaneGroups}
WarpLanes(w) == {<<w[1], w[2], w[3], l>> : l \in LaneGroups}
BlockLanes(b) == {x \in DOMAIN gpc : x[1] = b[1] /\ x[2] = b[2]}

\* a call whose grid is one block, with k reaching into 0 .. MaxTiles reduction
\* tiles; the contents of the buffers are left out
InitSync ==
    /\ kern \in {"v06", "v07"}
    /\ m = WMMA_TILE_SIZE_Y /\ n = WMMA_TILE_SIZE_X /\ ldc = n
    /\ mHigh = 0 /\ nHigh = 0
    /\ k \in {0} \cup {BLOCK_TILE_SIZE_K * (j - 1) + 1 : j \in 1 .. MaxTiles}
    /\ alpha = 1 /\ beta = 0 /\ cinit = "finite"
    /\ status = "init"
    /\ grid = <<0, 0>>
    /\ pc = << >> /\ tile = << >> /\ staged = << >> /\ acc = << >>
    /\ lanePc = << >> /\ laneReg = << >>
    /\ C = << >> /\ stores = {} /\ ub = {}
    /\ gpc = << >> /\ gtile = << >> /\ gstaged = << >> /\ barriers = << >>

\* kernel entry: every lane starts at the head of the reduction loop
LanesEnter ==
    /\ status = "dispatched"
    /\ status' = "running"
    /\ gpc' = [x \in LaneGroupsIn(grid) |-> LoopHead(0)]
    /\ gtile' = [x \in LaneGroupsIn(grid) |-> 0]
    /\ gstaged' = [x \in LaneGroupsIn(grid) |-> 0]
    /\ barriers' = [x \in LaneGroupsIn(grid) |-> 0]
    /\ UNCHANGED <<args, grid, warps>>

\* load_data_to_shared_memory_transposed_vectorized(..., thread_block_tile_idx, ...)
\* by the lanes of the warp that stand at the call
LanesLoadTile(w) ==
    /\ status = "running"
    /\ \E x \in WarpLanes(w) : gpc[x] = "load"
    /\ gstaged' = [x \in DOMAIN gstaged |->
                     IF WarpOf(x) = w /\ gpc[x] = "load" THEN gtile[x] + 1 ELSE gstaged[x]]
    /\ gpc' = [x \in DOMAIN gpc |->
                 IF WarpOf(x) = w /\ gpc[x] = "load" THEN "sync" ELSE gpc[x]]
    /\ UNCHANGED <<args, status, grid, warps, gtile, barriers>>

\* a barrier that waits for the lanes of one warp only, as __syncwarp() does
SyncThreadsAsSyncWarp(b) ==
    \E x \in BlockLanes(b) : \A y \in WarpLanes(WarpOf(x)) : gpc[y] \in {"sync", "final"}

\* __syncthreads() lets go when every lane of the block has arrived at one
SyncThreadsReleases(b) == \A x \in BlockLanes(b) : gpc[x] \in {"sync", "final"}

\* __syncthreads(): the lanes waiting at it go on
LanesSyncThreads(b) ==
    /\ status = "running"
    /\ \E x \in BlockLanes(b) : gpc[x] \in {"sync", "final"}
    /\ SyncThreadsReleases(b)
    /\ gpc' = [x \in DOMAIN gpc |->
                 IF x \in BlockLanes(b) /\ gpc[x] = "sync" THEN "compute"
                 ELSE IF x \in BlockLanes(b) /\ gpc[x] = "final" THEN "wb"
                 ELSE gpc[x]]
    /\ barriers' = [x \in DOMAIN barriers |->
                      IF x \in BlockLanes(b) /\ gpc[x] \in {"sync", "final"}
                      THEN barriers[x] + 1 ELSE barriers[x]]
    /\ UNCHANGED <<args, status, grid, warps, gtile, gstaged>>

\* the loop without its __syncwarp(): no lane waits for its warp-mates
SyncWarpLeftOut(w, x) == TRUE

\* __syncwarp() lets go when every lane of the warp has arrived at it: the
\* lanes x that arrive now and those that wait there
SyncWarpReleases(w, x) ==
    \A y \in WarpLanes(w) : y = x \/ gpc[y] = "syncwarp"

\* the k_i loop, __syncwarp(), ++thread_block_tile_idx and the loop test: the
\* lanes x finish their reads of the staged tile and arrive at __syncwarp(), the
\* front lanes of a warp before its rear lanes; lanes let go by it move on to the
\* head of the loop
LanesRead(x) ==
    /\ status = "running"
    /\ gpc[x] = "compute"
    /\ x[4] = "rear" =>
          LET f == <<x[1], x[2], x[3], "front">>
          IN  gpc[f] # "compute" \/ gtile[f] # gtile[x]
    /\ LET let_go == IF SyncWarpReleases(WarpOf(x), x)
                     THEN {y \in WarpLanes(WarpOf(x)) : y = x \/ gpc[y] = "syncwarp"}
                     ELSE {}
       IN  /\ gtile' = [y \in DOMAIN gtile |-> IF y \in let_go THEN gtile[y] + 1 ELSE gtile[y]]
           /\ gpc' = [y \in DOMAIN gpc |->
                        IF y \in let_go THEN LoopHead(gtile[y] + 1)
                        ELSE IF y = x THEN "syncwarp" ELSE gpc[y]]
    /\ UNCHANGED <<args, status, grid, warps, gstaged, barriers>>

\* the write-back loops of the warp: bounded loops with no barrier in them
LanesWriteBack(w) ==
    /\ status = "running"
    /\ \A x \in WarpLanes(w) : gpc[x] = "wb"
    /\ gpc' = [x \in DOMAIN gpc |-> IF WarpOf(x) = w THEN "done" ELSE gpc[x]]
    /\ UNCHANGED <<args, status, grid, warps, gtile, gstaged, barriers>>

\* every lane has returned from the kernel
LanesExit ==
    /\ status = "running"
    /\ gpc # << >>
    /\ \A x \in DOMAIN gpc : gpc[x] = "done"
    /\ status' = "completed"
    /\ UNCHANGED <<args, grid, warps, lanes>>

NextSync ==
    \/ Dispatch
    \/ LanesEnter
    \/ \E w \in Warps : LanesLoadTile(w)
    \/ \E b \in Blocks : LanesSyncThreads(b)
    \/ \E x \in DOMAIN gpc : LanesRead(x)
    \/ \E w \in Warps : LanesWriteBack(w)
    \/ LanesExit

SpecSync == InitSync /\ [][NextSync]_vars

\* the device schedules every warp of a resident block until it returns
FairSync == SpecSync /\ WF_vars(NextSync)

\* ---------------------------------------------------------------- reference
RECURSIVE RefDot(_, _, _)
\* sum over p in [0, k) of A[i][p] * B[p][j], from p upwards
RefDot(i, j, p) == IF p >= k THEN 0 ELSE FAdd(FMul(AElem(i, p), BElem(p, j)), RefDot(i, j, p + 1))

\* the triple-loop GEMM: alpha * (A B)[i][j] + beta * C_original[i][j]
Reference(i, j) == FAdd(FMul(alpha, RefDot(i, j, 0)), FMul(beta, CElem(cinit, i * ldc + j)))

ValidElems == {<<i, j>> : i \in 0 .. m - 1, j \in 0 .. n - 1}

\* the kernel is over: it ran to its end, or an invalid access stopped it
KernelOver == status \in {"completed", "fault"}

\* the element offsets one store writes
Cells(s) == {s.off + r * s.stride + c : r \in 0 .. s.height - 1, c \in 0 .. s.width - 1}

\* the output region assigned to a worker (a v06 thread's thread tiles, a v07
\* warp's warp tile), cut to the matrix, as element offsets i * ldc + j
OwnRegion(wk) ==
    IF kern = "v06"
    THEN {C_row_idx(wk, q) * ldc + C_col_idx(wk, q) + i :
            q \in {x \in 0 .. NumItersV06 - 1 : C_row_idx(wk, x) < m},
            i \in {y \in 0 .. NUM_VECTOR_UNITS - 1 :
                     \E x \in 0 .. NumItersV06 - 1 : C_col_idx(wk, x) + y < n}}
         \cap {e[1] * ldc + e[2] : e \in ValidElems}
    ELSE {e[1] * ldc + e[2] :
            e \in {v \in ValidElems :
                     /\ v[1] \div WARP_TILE_SIZE_Y
                          = (wk[2] * BLOCK_TILE_SIZE_Y) \div WARP_TILE_SIZE_Y + warp_row_idx(wk)
                     /\ v[2] \div WARP_TILE_SIZE_X
                          = (wk[1] * BLOCK_TILE_SIZE_X) \div WARP_TILE_SIZE_X + warp_col_idx(wk)}}

FragmentSized == m % WMMA_TILE_SIZE_Y = 0 /\ n % WMMA_TILE_SIZE_X = 0

\* ---------------------------------------------------------------- claims
\* C1: launch_gemm_kernel_v06_vectorized never stores outside rows [0, m) and
\* columns [0, n): every element offset it stores to is row * ldc + col with
\* row < m and col < n.
C1_V06StoresInsideMatrix ==
    kern = "v06" =>
        \A s \in stores : \A o \in Cells(s) : o \div ldc < m /\ o % ldc < n

\* C2: after launch_gemm_kernel_v06_vectorized every element C[i][j] of the
\* matrix equals alpha * sum_p A[i][p] * B[p][j] + beta * C_original[i][j].
C2_V06MatchesReference ==
    (kern = "v06" /\ KernelOver) =>
        (status = "completed" /\ \A e \in ValidElems : C[e[1] * ldc + e[2]] = Reference(e[1], e[2]))

\* C3: when m and n are multiples of the fragment size, every C fragment v07
\* loads and stores lies inside rows [0, m) and columns [0, n).
C3_V07FragmentsInsideMatrix ==
    (kern = "v07" /\ FragmentSized) =>
        \A s \in stores : s.row + s.height <= m /\ s.col + s.width <= n

\* C4: with m and n multiples of the fragment size, every element of C after
\* launch_gemm_kernel_v07_vectorized equals the reference result that v06 yields.
C4_V07MatchesReference ==
    (kern = "v07" /\ FragmentSized /\ KernelOver) =>
        (status = "completed" /\ \A e \in ValidElems : C[e[1] * ldc + e[2]] = Reference(e[1], e[2]))

\* C5: both kernels address element (i, j) of C at offset i * ldc + j with rows
\* ldc apart, and leave the padding between column n and ldc as it was.
C5_AddressedByLdc ==
    /\ \A s \in stores : s.off = s.row * ldc + s.col /\ s.stride = ldc
    /\ \A o \in DOMAIN C : o % ldc >= n => C[o] = CElem(cinit, o)

\* C6: no element of C is written by two different workers, and every store
\* stays inside the storing worker's own output region.
C6_DisjointOwnership ==
    /\ \A s1, s2 \in stores : s1.worker # s2.worker => Cells(s1) \cap Cells(s2) = {}
    /\ \A s \in stores : Cells(s) \subseteq OwnRegion(s.worker)

\* C7: in v06 every element of the matrix is stored by the write-back pass, and
\* exactly once per launch.
C7_V06EveryElementStoredOnce ==
    kern = "v06" =>
        \A e \in ValidElems :
            LET hits == {s \in stores : (e[1] * ldc + e[2]) \in Cells(s)}
            IN  /\ Cardinality(hits) <= 1
                /\ KernelOver => Cardinality(hits) = 1

\* C8: with k = 0 the reduction loop runs no iteration, the staging buffers are
\* never loaded, and on return every element of the matrix is beta * C_original.
C8_KZeroScalesC ==
    (k = 0 /\ (kern = "v06" \/ FragmentSized)) =>
        /\ \A w \in DOMAIN acc : acc[w] = << >> /\ staged[w] = 0
        /\ KernelOver =>
              /\ status = "completed"
              /\ \A e \in ValidElems :
                    C[e[1] * ldc + e[2]] = FMul(beta, CElem(cinit, e[1] * ldc + e[2]))

\* C9: a call with m = 0 or n = 0 raises no launch error and leaves C untouched.
C9_DegenerateSizesAccepted ==
    (m = 0 \/ n = 0) =>
        /\ status \notin {"invalid_configuration", "fault"}
        /\ \A o \in DOMAIN C : C[o] = CElem(cinit, o)

\* C10: with alpha = 1 and beta = 0 a launch that runs to its end leaves exactly
\* A B in the matrix, whatever C held before.
C10_BetaZeroIgnoresC ==
    (alpha = 1 /\ beta = 0 /\ status = "completed") =>
        \A e \in ValidElems : C[e[1] * ldc + e[2]] = RefDot(e[1], e[2], 0)

\* C14: every int4 load and store of C in the v06 write-back is at an element
\* offset row * ldc + col that is a multiple of NUM_VECTOR_UNITS and covers
\* NUM_VECTOR_UNITS elements that all lie in columns [0, n).
C14_VectorAccessesAlignedInside ==
    kern = "v06" =>
        /\ \A s \in stores :
              /\ s.off % NUM_VECTOR_UNITS = 0
              /\ s.width = NUM_VECTOR_UNITS
              /\ s.col + s.width <= n
        /\ \A th \in DOMAIN lanePc :
              lanePc[th] % 2 = 1 =>
                  /\ VecOffsetV06(th, lanePc[th] \div 2) % NUM_VECTOR_UNITS = 0
                  /\ C_col_idx(th, lanePc[th] \div 2) + NUM_VECTOR_UNITS <= n

\* ceil(x / tileSize) for the size x = hi * Limb + lo
CeilDiv(hi, lo, tileSize) == hi * (Limb \div tileSize) + (lo + tileSize - 1) \div tileSize

\* C11: both launch functions dispatch a grid of exactly ceil(n / BLOCK_TILE_SIZE_X)
\* by ceil(m / BLOCK_TILE_SIZE_Y) blocks, each of as many threads as the kernel
\* body assumes, so that the blocks cover every row and column of the matrix.
C11_GridIsCeilOfSizes ==
    status # "init" =>
        /\ grid = <<CeilDiv(nHigh, n, BLOCK_TILE_SIZE_X), CeilDiv(mHigh, m, BLOCK_TILE_SIZE_Y)>>
        /\ NUM_THREADS_PER_BLOCK = NumWarps * WarpSize

\* C15: no lane writes a staging buffer for reduction tile t + 1 while a lane of
\* another warp of the same block has not finished reading the buffer for tile t.
C15_NoOverwriteBeforeOtherWarpsRead ==
    \A x, y \in DOMAIN gpc :
        (x[1] = y[1] /\ x[2] = y[2] /\ WarpOf(x) # WarpOf(y) /\ gpc[x] = "compute")
            => gstaged[y] <= gtile[x] + 1

\* C12: for every reduction tile t, no lane reads a staging buffer for tile t
\* until every lane of its block has finished its staging-loader writes for t.
C12_LoadBeforeRead ==
    \A x \in DOMAIN gpc :
        gpc[x] = "compute" => \A y \in BlockLanes(x) : gstaged[y] >= gtile[x] + 1

\* lanes read the second reduction tile
C12_ReadsSecondTile == \E x \in DOMAIN gpc : gpc[x] = "compute" /\ gtile[x] = 1

\* C13: within a warp, no lane begins overwriting the staging buffers for tile
\* t + 1 before its warp-mates have finished reading tile t.
C13_NoOverwriteBeforeWarpMatesRead ==
    \A x, y \in DOMAIN gpc :
        (WarpOf(x) = WarpOf(y) /\ gpc[x] = "compute") => gstaged[y] <= gtile[x] + 1

\* lanes of a warp wait at __syncwarp() for warp-mates that still read a tile
\* which is not the last, while another warp has loaded the next tile
C13_LanesWaitForWarpMates ==
    \E x, y \in DOMAIN gpc :
        /\ WarpOf(x) = WarpOf(y)
        /\ gpc[x] = "compute" /\ gpc[y] = "syncwarp"
        /\ gtile[x] + 1 < num_thread_block_tiles
        /\ \E z \in DOMAIN gpc : gstaged[z] = gtile[x] + 2

\* the barriers a lane has passed: never more than ceil(k / BLOCK_TILE_SIZE_K) + 1,
\* and exactly that many once it is through the reduction loop
BarriersConverge ==
    \A x \in DOMAIN gpc :
        /\ barriers[x] <= num_thread_block_tiles + 1
        /\ gpc[x] \in {"wb", "done"} => barriers[x] = num_thread_block_tiles + 1

====
